---- MODULE Spec2Model ----
(***************************************************************************)
(* Model of the client cache of ansible-operator's vendored                *)
(* controller-runtime client (clientCache): two lazily populated tables of *)
(* *resourceMeta, one keyed by reflect.Type and one by GroupVersionKind,   *)
(* each guarded by its own sync.RWMutex, filled by newResource.            *)
(***************************************************************************)
EXTENDS Integers, Sequences, FiniteSets, TLC

(* ------------------------------ bounds --------------------------------- *)
\* number of getObjMeta calls made in one behaviour, each in
\* a goroutine of its own: any number of them may run concurrently
MaxCalls == 2

\* a call is named by its rank in the order in which the calls start
Threads == 1..MaxCalls

(* ------------------------------ objects -------------------------------- *)
\* The runtime.Objects handed to the cache.  Each is described by what the
\* code asks of it: its Go type, its declared GroupVersionKind, whether
\* meta.IsListType holds and whether meta.Accessor succeeds.
\*   widget       typed item, kind W
\*   widgetList   typed list of widgets, kind WList
\*   widgets      typed list registered under a kind without the suffix, Ws,
\*                a cluster-scoped kind
\*   uWidget      *Unstructured declaring kind W
\*   uWidgetList  *UnstructuredList declaring kind WList
\*   uBare        *Unstructured declaring kind WList without an items field,
\*                so an object that is no list though its kind ends in List
Objects == {"widget", "widgetList", "widgets",
            "uWidget", "uWidgetList", "uBare"}

\* kinds are strings, kept as sequences of characters so that the suffix test
\* and the slicing of newResource are computed
KWidget == <<"W">>
KWidgetList == <<"W", "L", "i", "s", "t">>
KWidgets == <<"W", "s">>
KEmpty == <<>>

GVKOf(k) == [Group |-> "apps", Version |-> "v1", Kind |-> k]

\* the zero value of schema.GroupVersionKind
ZeroGVK == [Group |-> "", Version |-> "", Kind |-> KEmpty]

\* what the object is: a typed Go struct, an *unstructured.Unstructured or
\* an *unstructured.UnstructuredList
ObjClass(o) ==
    CASE o \in {"widget", "widgetList", "widgets"} -> "typed"
      [] o \in {"uWidget", "uBare"} -> "Unstructured"
      [] o = "uWidgetList" -> "UnstructuredList"

\* _, isUnstructured := obj.(*unstructured.Unstructured)
IsUnstructured(o) == ObjClass(o) = "Unstructured"

\* _, isUnstructuredList := obj.(*unstructured.UnstructuredList)
IsUnstructuredList(o) == ObjClass(o) = "UnstructuredList"

\* reflect.TypeOf(obj)
TypeOf(o) ==
    CASE o = "widget" -> "*Widget"
      [] o = "widgetList" -> "*WidgetList"
      [] o = "widgets" -> "*Widgets"
      [] OTHER -> "*" \o ObjClass(o)

\* the kind the object has: registered in the scheme for a typed object,
\* declared in the object itself for an unstructured one
KindOfObject(o) ==
    CASE o \in {"widget", "uWidget"} -> KWidget
      [] o \in {"widgetList", "uWidgetList", "uBare"} -> KWidgetList
      [] o = "widgets" -> KWidgets

\* obj.GetObjectKind().GroupVersionKind(): set on unstructured objects, the
\* zero value on typed objects whose TypeMeta is not populated
DeclaredGVK(o) ==
    IF IsUnstructured(o) \/ IsUnstructuredList(o) THEN GVKOf(KindOfObject(o))
    ELSE ZeroGVK

\* the value apiutil.GVKForObject(obj, c.scheme) yields when it succeeds
GVKForObject(o) == GVKOf(KindOfObject(o))

\* meta.IsListType(obj)
IsListType(o) == o \in {"widgetList", "widgets", "uWidgetList"}

\* meta.Accessor(obj) succeeds
HasAccessor(o) == o \in {"widget", "uWidget", "uBare"}

(* --------------------------- pure functions ---------------------------- *)
\* strings.HasSuffix(s, suffix)
HasSuffix(s, suffix) ==
    /\ Len(s) >= Len(suffix)
    /\ SubSeq(s, Len(s) - Len(suffix) + 1, Len(s)) = suffix

ListSuffix == <<"L", "i", "s", "t">>

\* mutant: the suffix is stripped whatever meta.IsListType says
StripList_IgnoresIsList(gvk, o) ==
    IF HasSuffix(gvk.Kind, ListSuffix)
    THEN [gvk EXCEPT !.Kind = SubSeq(gvk.Kind, 1, Len(gvk.Kind) - 4)]
    ELSE gvk

\* mutant: the client and the mapping are asked for the GVK as derived
StripList_Never(gvk, o) == gvk

\* newResource lines 65-68: a list is a request for the item's resource
StripList(gvk, o) ==
    IF HasSuffix(gvk.Kind, ListSuffix) /\ IsListType(o)
    THEN [gvk EXCEPT !.Kind = SubSeq(gvk.Kind, 1, Len(gvk.Kind) - 4)]
    ELSE gvk

\* the rest.Interface built by apiutil.RESTUnstructuredClientForGVK or
\* apiutil.RESTClientForGVK
RESTClient(gvk, isUnstructured) ==
    [mode |-> IF isUnstructured THEN "unstructured" ELSE "typed", gvk |-> gvk]

\* the *meta.RESTMapping c.mapper.RESTMapping(gvk.GroupKind(), gvk.Version)
\* yields: resource name and scope of the kind
RESTMapping(gvk) ==
    [Resource |-> gvk.Kind \o <<"s">>,
     Scope |-> IF gvk.Kind = KWidgets THEN "root" ELSE "namespace",
     GroupVersionKind |-> gvk]

\* mutant: the composite literal leaves the mapping field out
NewResourceMeta_NoMapping(addr, client, mapping, gvk) ==
    [addr |-> addr, Interface |-> client, mapping |-> <<>>, gvk |-> gvk]

\* &resourceMeta{Interface: client, mapping: mapping, gvk: gvk}; pointers are
\* a sequence of length 0 (nil) or 1, addr is the identity of the allocation
NewResourceMeta(addr, client, mapping, gvk) ==
    [addr |-> addr, Interface |-> client, mapping |-> mapping, gvk |-> gvk]

\* mutant: the comparison with meta.RESTScopeNameRoot is the wrong way round
IsNamespaced_Inverted(rec) ==
    IF rec.mapping[1].Scope = "root" THEN TRUE ELSE FALSE

\* resourceMeta.isNamespaced, lines 167-172
IsNamespaced(rec) ==
    IF rec.mapping[1].Scope = "root" THEN FALSE ELSE TRUE

\* resourceMeta.resource, lines 175-177
ResourceName(rec) == rec.mapping[1].Resource

\* mutant: the *unstructured.UnstructuredList test is forgotten
Dispatch_NoList(o) == IF IsUnstructured(o) THEN "gvk" ELSE "type"

\* getResource lines 135-140: which table the object is resolved through
Dispatch(o) ==
    IF IsUnstructured(o) \/ IsUnstructuredList(o) THEN "gvk" ELSE "type"

\* mutant: the GVK table is keyed by the GVK after suffix stripping
KeyOf_Stripped(p, o) ==
    IF p = "gvk" THEN StripList(DeclaredGVK(o), o) ELSE TypeOf(o)

\* the key of the object in the table of its path
KeyOf(p, o) == IF p = "gvk" THEN DeclaredGVK(o) ELSE TypeOf(o)

\* map lookup r, known := m[key]
Known(m, key) == key \in DOMAIN m
Lookup(m, key) == IF key \in DOMAIN m THEN <<m[key]>> ELSE <<>>

\* mutant: the assignment replaces the map by one holding the new entry only
Store_DropsOthers(m, key, rec) == [k \in {key} |-> rec]

\* mutant: the stored record is a copy whose gvk was not filled in
Store_ZeroGVK(m, key, rec) ==
    [k \in DOMAIN m \cup {key} |->
        IF k = key THEN [rec EXCEPT !.gvk = ZeroGVK] ELSE m[k]]

\* map assignment m[key] = r
Store(m, key, rec) ==
    [k \in DOMAIN m \cup {key} |-> IF k = key THEN rec ELSE m[k]]

EmptyMap == [k \in {} |-> k]

(* ------------------------------- state --------------------------------- *)
VARIABLES
    resourceByType,             \* c.resourceByType
    unstructuredResourceByGVK,  \* c.unstructuredResourceByGVK
    muByType,                   \* c.muByType
    muByGVK,                    \* c.muByGVK
    pc,                         \* position of each goroutine
    call,                       \* the call each goroutine is in
    loc,                        \* locals of getResourceBy*/newResource
    calls,                      \* external calls made by the current call
    snap,                       \* the path's table as the exclusive lock was taken
    ret                         \* what the finished call returned

vars == <<resourceByType, unstructuredResourceByGVK, muByType, muByGVK,
          pc, call, loc, calls, snap, ret>>

NoCall == [id |-> 0, obj |-> "", path |-> "", hitAtStart |-> FALSE,
           afterFailure |-> FALSE]
NoLoc == [r |-> <<>>, known |-> FALSE, err |-> "nil", gvk |-> ZeroGVK,
          client |-> <<>>]
NoRet == [val |-> <<>>, err |-> "nil"]
Free == [readers |-> {}, writer |-> 0]

Init ==
    /\ resourceByType = EmptyMap
    /\ unstructuredResourceByGVK = EmptyMap
    /\ muByType = Free
    /\ muByGVK = Free
    /\ pc = [t \in Threads |-> "idle"]
    /\ call = [t \in Threads |-> NoCall]
    /\ loc = [t \in Threads |-> NoLoc]
    /\ calls = [t \in Threads |-> <<>>]
    /\ snap = [t \in Threads |-> <<>>]
    /\ ret = [t \in Threads |-> NoRet]

\* the table and the lock a path works on
TableOf(p) == IF p = "gvk" THEN unstructuredResourceByGVK ELSE resourceByType

\* mutant: getUnstructuredResourceByGVK locks c.muByType as well
MuName_AlwaysByType(p) == "muByType"

\* the mutex a path locks: c.muByGVK in getUnstructuredResourceByGVK,
\* c.muByType in getResourceByType
MuName(p) == IF p = "gvk" THEN "muByGVK" ELSE "muByType"

MuOf(p) == IF MuName(p) = "muByGVK" THEN muByGVK ELSE muByType


(* ------------------------------- locks --------------------------------- *)
\* sync.RWMutex: RLock returns only while no writer holds the mutex
CanRLock(mu) == mu.writer = 0

\* sync.RWMutex: Lock returns only while nobody holds the mutex
CanLock(mu) == mu.writer = 0 /\ mu.readers = {}

\* the mutex after t's RLock, RUnlock, Lock, Unlock
RLocked(mu, t) == [mu EXCEPT !.readers = @ \cup {t}]
\* mutant: the RUnlock after the probe is missing
RUnlocked_Missing(mu, t) == mu

RUnlocked(mu, t) == [mu EXCEPT !.readers = @ \ {t}]
Locked(mu, t) == [mu EXCEPT !.writer = t]
Unlocked(mu, t) == [mu EXCEPT !.writer = 0]

SetMu(p, mu) ==
    IF MuName(p) = "muByGVK" THEN muByGVK' = mu /\ UNCHANGED muByType
    ELSE muByType' = mu /\ UNCHANGED muByGVK

SetTable(p, m) ==
    IF p = "gvk"
    THEN unstructuredResourceByGVK' = m /\ UNCHANGED resourceByType
    ELSE resourceByType' = m /\ UNCHANGED unstructuredResourceByGVK

\* the key a call works on, and whether getResource has returned to it
KeyT(t) == KeyOf(call[t].path, call[t].obj)
Returned(t) == pc[t] \in {"returned", "done"}
SameKey(t, u) ==
    /\ pc[t] # "idle" /\ pc[u] # "idle"
    /\ call[t].path = call[u].path
    /\ KeyT(t) = KeyT(u)

(* ------------------------------ actions -------------------------------- *)
\* A goroutine calls getObjMeta(obj), which calls getResource(obj) at once
\* (line 145); getResource dispatches on the object's type (135-140).
Call(t) ==
    /\ pc[t] = "idle"
    /\ \A u \in Threads : u < t => pc[u] # "idle"
    /\ \E o \in Objects :
          LET p == Dispatch(o)
          IN  call' = [call EXCEPT ![t] =
                 [id |-> t, obj |-> o, path |-> p,
                  hitAtStart |-> Known(TableOf(p), KeyOf(p, o)),
                  afterFailure |->
                      \E u \in Threads :
                          /\ Returned(u) /\ loc[u].err # "nil"
                          /\ call[u].path = p /\ KeyT(u) = KeyOf(p, o)]]
    /\ pc' = [pc EXCEPT ![t] = "rlock"]
    /\ UNCHANGED <<resourceByType, unstructuredResourceByGVK, muByType,
                   muByGVK, loc, calls, snap, ret>>

\* c.muByType.RLock() / c.muByGVK.RLock()
RLock(t) ==
    /\ pc[t] = "rlock"
    /\ CanRLock(MuOf(call[t].path))
    /\ SetMu(call[t].path, RLocked(MuOf(call[t].path), t))
    /\ pc' = [pc EXCEPT ![t] = "probe"]
    /\ UNCHANGED <<resourceByType, unstructuredResourceByGVK,
                   call, loc, calls, snap, ret>>

\* mutant: the result of the probe is ignored
AfterProbe_IgnoresKnown(known) == "lock"

\* where the goroutine goes after the probe: lines 93-95 / 117-119
AfterProbe(known) == IF known THEN "returned" ELSE "lock"

\* r, known := table[key]; RUnlock(); if known { return r, nil }
Probe(t) ==
    /\ pc[t] = "probe"
    /\ LET p == call[t].path
       IN  /\ loc' = [loc EXCEPT ![t].r = Lookup(TableOf(p), KeyT(t)),
                                 ![t].known = Known(TableOf(p), KeyT(t))]
           /\ SetMu(p, RUnlocked(MuOf(p), t))
           /\ pc' = [pc EXCEPT ![t] = AfterProbe(Known(TableOf(p), KeyT(t)))]
    /\ UNCHANGED <<resourceByType, unstructuredResourceByGVK,
                   call, calls, snap, ret>>

\* mutant: the construction runs under the shared lock
Lock_Shared(t) ==
    /\ pc[t] = "lock"
    /\ CanRLock(MuOf(call[t].path))
    /\ SetMu(call[t].path, RLocked(MuOf(call[t].path), t))
    /\ snap' = [snap EXCEPT ![t] = <<TableOf(call[t].path)>>]
    /\ pc' = [pc EXCEPT ![t] = "gvkForObject"]
    /\ UNCHANGED <<resourceByType, unstructuredResourceByGVK,
                   call, loc, calls, ret>>

\* c.muByType.Lock() / c.muByGVK.Lock(), with the deferred Unlock armed
Lock(t) ==
    /\ pc[t] = "lock"
    /\ CanLock(MuOf(call[t].path))
    /\ SetMu(call[t].path, Locked(MuOf(call[t].path), t))
    /\ snap' = [snap EXCEPT ![t] = <<TableOf(call[t].path)>>]
    /\ pc' = [pc EXCEPT ![t] = "gvkForObject"]
    /\ UNCHANGED <<resourceByType, unstructuredResourceByGVK,
                   call, loc, calls, ret>>

\* newResource goes on to its next call: nothing shared changes
GoOn(t, next) ==
    /\ pc' = [pc EXCEPT ![t] = next]
    /\ UNCHANGED <<resourceByType, unstructuredResourceByGVK, muByType,
                   muByGVK>>

\* mutant: the record is stored before err is looked at, so a failed
\* construction leaves what it had built under the key
FailUnlock_StoresPartial(t, e) ==
    /\ loc' = [loc EXCEPT ![t].r = <<>>, ![t].err = e]
    /\ SetMu(call[t].path, Unlocked(MuOf(call[t].path), t))
    /\ pc' = [pc EXCEPT ![t] = "returned"]
    /\ SetTable(call[t].path,
                Store(TableOf(call[t].path), KeyT(t),
                      NewResourceMeta(call[t].id, loc[t].client, <<>>,
                                      loc[t].gvk)))

\* mutant: the failure is remembered: a nil *resourceMeta goes under the key
FailUnlock_Memoizes(t, e) ==
    /\ loc' = [loc EXCEPT ![t].r = <<>>, ![t].err = e]
    /\ SetMu(call[t].path, Unlocked(MuOf(call[t].path), t))
    /\ pc' = [pc EXCEPT ![t] = "returned"]
    /\ SetTable(call[t].path,
                Store(TableOf(call[t].path), KeyT(t),
                      NewResourceMeta(0, <<>>, <<>>, ZeroGVK)))

\* mutant: the Unlock is not deferred, and the error path returns without it
FailUnlock_NoUnlock(t, e) ==
    /\ loc' = [loc EXCEPT ![t].r = <<>>, ![t].err = e]
    /\ pc' = [pc EXCEPT ![t] = "returned"]
    /\ UNCHANGED <<resourceByType, unstructuredResourceByGVK, muByType,
                   muByGVK>>

\* the error path of getResourceByType / getUnstructuredResourceByGVK:
\* if err != nil { return nil, err }, running the deferred Unlock
FailUnlock(t, e) ==
    /\ loc' = [loc EXCEPT ![t].r = <<>>, ![t].err = e]
    /\ SetMu(call[t].path, Unlocked(MuOf(call[t].path), t))
    /\ pc' = [pc EXCEPT ![t] = "returned"]
    /\ UNCHANGED <<resourceByType, unstructuredResourceByGVK>>

\* newResource lines 60-68: derive the GVK, strip the list suffix
GVKStep(t) ==
    /\ pc[t] = "gvkForObject"
    /\ \E ok \in BOOLEAN :
       /\ calls' = [calls EXCEPT ![t] =
                       Append(@, [fn |-> "GVKForObject", gvk |-> ZeroGVK,
                                  ok |-> ok])]
       /\ IF ok
          THEN /\ loc' = [loc EXCEPT ![t].gvk =
                             StripList(GVKForObject(call[t].obj), call[t].obj)]
               /\ GoOn(t, "client")
          ELSE FailUnlock(t, "TypeResolutionError")
    /\ UNCHANGED <<call, snap, ret>>

\* the isUnstructured argument newResource gets from its caller (100, 124)
IsUnstructuredArg(p) == p = "gvk"

\* newResource lines 70-78: build the rest client for the gvk
ClientStep(t) ==
    /\ pc[t] = "client"
    /\ \E ok \in BOOLEAN :
       /\ calls' = [calls EXCEPT ![t] =
                       Append(@, [fn |-> IF IsUnstructuredArg(call[t].path)
                                         THEN "RESTUnstructuredClientForGVK"
                                         ELSE "RESTClientForGVK",
                                  gvk |-> loc[t].gvk, ok |-> ok])]
       /\ IF ok
          THEN /\ loc' = [loc EXCEPT ![t].client =
                             <<RESTClient(loc[t].gvk,
                                          IsUnstructuredArg(call[t].path))>>]
               /\ GoOn(t, "mapping")
          ELSE FailUnlock(t, "TransportError")
    /\ UNCHANGED <<call, snap, ret>>

\* newResource lines 79-83: look the mapping up and bundle the record
MappingStep(t) ==
    /\ pc[t] = "mapping"
    /\ \E ok \in BOOLEAN :
       /\ calls' = [calls EXCEPT ![t] =
                       Append(@, [fn |-> "RESTMapping", gvk |-> loc[t].gvk,
                                  ok |-> ok])]
       /\ IF ok
          THEN /\ loc' = [loc EXCEPT ![t].r =
                             <<NewResourceMeta(call[t].id, loc[t].client,
                                               <<RESTMapping(loc[t].gvk)>>,
                                               loc[t].gvk)>>]
               /\ GoOn(t, "insert")
          ELSE FailUnlock(t, "MappingError")
    /\ UNCHANGED <<call, snap, ret>>

\* mutant: the table is probed again under the exclusive lock and an entry
\* found there is kept and returned
Insert_IfAbsent(t) ==
    /\ pc[t] = "insert"
    /\ LET p == call[t].path
       IN  /\ IF Known(TableOf(p), KeyT(t))
              THEN /\ loc' = [loc EXCEPT ![t].r = Lookup(TableOf(p), KeyT(t))]
                   /\ UNCHANGED <<resourceByType, unstructuredResourceByGVK>>
              ELSE /\ SetTable(p, Store(TableOf(p), KeyT(t), loc[t].r[1]))
                   /\ UNCHANGED loc
           /\ SetMu(p, Unlocked(MuOf(p), t))
    /\ pc' = [pc EXCEPT ![t] = "returned"]
    /\ UNCHANGED <<call, calls, snap, ret>>

\* lines 104-105 / 128-129: table[key] = r; return r, err (deferred Unlock)
Insert(t) ==
    /\ pc[t] = "insert"
    /\ LET p == call[t].path
       IN  /\ SetTable(p, Store(TableOf(p), KeyT(t), loc[t].r[1]))
           /\ SetMu(p, Unlocked(MuOf(p), t))
    /\ pc' = [pc EXCEPT ![t] = "returned"]
    /\ UNCHANGED <<call, loc, calls, snap, ret>>

\* mutant: meta.Accessor is consulted before getResource's error
Accessor_BeforeError(t) ==
    /\ pc[t] = "returned"
    /\ ret' = [ret EXCEPT ![t] =
          IF ~HasAccessor(call[t].obj)
          THEN [val |-> <<>>, err |-> "AccessorError"]
          ELSE IF loc[t].err # "nil"
               THEN [val |-> <<>>, err |-> loc[t].err]
               ELSE [val |-> <<[resourceMeta |-> loc[t].r[1],
                               Object |-> call[t].obj]>>,
                     err |-> "nil"]]
    /\ pc' = [pc EXCEPT ![t] = "done"]
    /\ UNCHANGED <<resourceByType, unstructuredResourceByGVK, muByType,
                   muByGVK, call, loc, calls, snap>>

\* mutant: an object without metadata takes its record out of the table again
Accessor_Evicts(t) ==
    /\ pc[t] = "returned"
    /\ ret' = [ret EXCEPT ![t] =
          IF loc[t].err # "nil"
          THEN [val |-> <<>>, err |-> loc[t].err]
          ELSE IF HasAccessor(call[t].obj)
               THEN [val |-> <<[resourceMeta |-> loc[t].r[1],
                               Object |-> call[t].obj]>>,
                     err |-> "nil"]
               ELSE [val |-> <<>>, err |-> "AccessorError"]]
    /\ IF loc[t].err = "nil" /\ ~HasAccessor(call[t].obj)
       THEN SetTable(call[t].path,
                     [k \in DOMAIN TableOf(call[t].path) \ {KeyT(t)} |->
                         TableOf(call[t].path)[k]])
       ELSE UNCHANGED <<resourceByType, unstructuredResourceByGVK>>
    /\ pc' = [pc EXCEPT ![t] = "done"]
    /\ UNCHANGED <<muByType, muByGVK, call, loc, calls, snap>>

\* getObjMeta lines 146-153, with getResource's r and err in hand: its error
\* is passed on, else meta.Accessor(obj) decides
Accessor(t) ==
    /\ pc[t] = "returned"
    /\ ret' = [ret EXCEPT ![t] =
          IF loc[t].err # "nil"
          THEN [val |-> <<>>, err |-> loc[t].err]
          ELSE IF HasAccessor(call[t].obj)
               THEN [val |-> <<[resourceMeta |-> loc[t].r[1],
                               Object |-> call[t].obj]>>,
                     err |-> "nil"]
               ELSE [val |-> <<>>, err |-> "AccessorError"]]
    /\ pc' = [pc EXCEPT ![t] = "done"]
    /\ UNCHANGED <<resourceByType, unstructuredResourceByGVK, muByType,
                   muByGVK, call, loc, calls, snap>>

Step(t) ==
    \/ Call(t)
    \/ RLock(t)
    \/ Probe(t)
    \/ Lock(t)
    \/ GVKStep(t)
    \/ ClientStep(t)
    \/ MappingStep(t)
    \/ Insert(t)
    \/ Accessor(t)

Next == \E t \in Threads : Step(t)

Spec == Init /\ [][Next]_vars

\* what a goroutine inside getObjMeta does next: the Go scheduler runs every
\* runnable goroutine, sync.RWMutex hands a free mutex to a waiter, and the
\* calls into the type resolver, the transport factory and the mapper return
Progress(t) ==
    \/ RLock(t)
    \/ Probe(t)
    \/ Lock(t)
    \/ GVKStep(t)
    \/ ClientStep(t)
    \/ MappingStep(t)
    \/ Insert(t)
    \/ Accessor(t)

FairSpec == Spec /\ \A t \in Threads : WF_vars(Progress(t))

TypeOK ==
    /\ DOMAIN resourceByType \subseteq {TypeOf(o) : o \in Objects}
    /\ DOMAIN unstructuredResourceByGVK \subseteq {DeclaredGVK(o) : o \in Objects}

(* ------------------------- vocabulary of the claims --------------------- *)
Holds(mu, t) == t \in mu.readers \/ mu.writer = t
Constructing(t) == pc[t] \in {"gvkForObject", "client", "mapping", "insert"}

\* the call built a record, stored it and got it back from getResource
Inserted(t) == Returned(t) /\ loc[t].err = "nil" /\ ~loc[t].known

\* the table of a path in the next state
TableOfNext(p) ==
    IF p = "gvk" THEN unstructuredResourceByGVK' ELSE resourceByType'

AllRecords ==
    {resourceByType[k] : k \in DOMAIN resourceByType}
        \cup {unstructuredResourceByGVK[k] : k \in DOMAIN unstructuredResourceByGVK}

\* all three components of a record are set
Full(rec) ==
    /\ Len(rec.Interface) = 1
    /\ Len(rec.mapping) = 1
    /\ rec.gvk # ZeroGVK

ClientFns == {"RESTClientForGVK", "RESTUnstructuredClientForGVK"}

\* the external calls of one construction attempt: the three steps in order,
\* each made only if the one before it succeeded
AttemptShape(cs) ==
    /\ Len(cs) \in 1..3
    /\ cs[1].fn = "GVKForObject"
    /\ Len(cs) >= 2 => cs[2].fn \in ClientFns
    /\ Len(cs) = 3 => cs[3].fn = "RESTMapping"
    /\ \A i \in 1..(Len(cs) - 1) : cs[i].ok

(* -------------------------------- claims -------------------------------- *)

\* C1: a call for a key that is already in its table when the call starts
\* goes through the shared-lock probe only: it never takes the exclusive
\* lock, makes no call to GVKForObject, the client constructors or
\* RESTMapping, and getResource returns to it, without error, a record that
\* another call built for the same key.
C1_CacheHitNoExternalCall ==
    \A t \in Threads :
        call[t].hitAtStart =>
            /\ pc[t] \in {"rlock", "probe", "returned", "done"}
            /\ calls[t] = <<>>
            /\ snap[t] = <<>>
            /\ Returned(t) =>
                  /\ loc[t].err = "nil"
                  /\ loc[t].known
                  /\ Len(loc[t].r) = 1
                  /\ loc[t].r[1].addr \in Threads \ {t}
                  /\ SameKey(t, loc[t].r[1].addr)

C1_Witness ==
    \E t \in Threads : call[t].hitAtStart /\ Returned(t)

\* C2: the step in which a call fails (GVK derivation, client construction or
\* REST mapping) changes neither table, the table of its path is at that
\* moment exactly the table the call found when it took the exclusive lock,
\* and no record built by the failed call is in either table.
C2_FailureLeavesNoTrace ==
    [][\A t \in Threads :
          (loc[t].err = "nil" /\ loc'[t].err # "nil") =>
              /\ Len(snap[t]) = 1
              /\ TableOf(call[t].path) = snap[t][1]
              /\ UNCHANGED <<resourceByType, unstructuredResourceByGVK>>
              /\ \A p \in {"type", "gvk"} :
                    \A k \in DOMAIN TableOfNext(p) :
                        TableOfNext(p)[k].addr # t]_vars

C2_Witness ==
    \E t \in Threads :
        /\ Returned(t)
        /\ loc[t].err = "MappingError"
        /\ ~Known(TableOf(call[t].path), KeyT(t))

\* C3: a call that starts after a call for the same key has failed, while no
\* call has inserted a record for the key, runs a construction attempt from
\* its first step (GVKForObject, then the client constructor, then
\* RESTMapping, each if the one before succeeded); it fails only if one of
\* its own external calls fails, and if all three succeed it returns without
\* error the record it built, which is then the entry of the key.
C3_NoNegativeCaching ==
    \A t \in Threads :
        ( /\ Returned(t)
          /\ call[t].afterFailure
          /\ ~\E u \in Threads \ {t} : SameKey(u, t) /\ Inserted(u) ) =>
            /\ AttemptShape(calls[t])
            /\ loc[t].err = "nil" <=>
                  (Len(calls[t]) = 3 /\ calls[t][3].ok)
            /\ loc[t].err = "nil" =>
                  /\ Len(loc[t].r) = 1
                  /\ loc[t].r[1].addr = t
                  /\ Known(TableOf(call[t].path), KeyT(t))
                  /\ TableOf(call[t].path)[KeyT(t)] = loc[t].r[1]

C3_Witness ==
    \E t \in Threads :
        /\ Returned(t)
        /\ call[t].afterFailure
        /\ loc[t].err = "nil"
        /\ Len(loc[t].r) = 1
        /\ loc[t].r[1].addr = t

\* C4: every record stored in either table, every record a probe found and
\* every record returned by getResource or inside an objMeta has its client,
\* its GVK and its REST mapping set.
C4_NoPartialState ==
    /\ \A rec \in AllRecords : Full(rec)
    /\ \A t \in Threads :
          /\ (loc[t].known \/ (Returned(t) /\ loc[t].err = "nil")) =>
                (Len(loc[t].r) = 1 /\ Full(loc[t].r[1]))
          /\ Len(ret[t].val) = 1 => Full(ret[t].val[1].resourceMeta)

C4_Witness ==
    \E t, u \in Threads :
        /\ t # u
        /\ SameKey(t, u)
        /\ ~call[t].hitAtStart /\ ~call[u].hitAtStart
        /\ Inserted(t)
        /\ Constructing(u)

\* C5: a call whose probe missed makes exactly one construction attempt and,
\* if it succeeds, gets back the record it built itself; its insert puts that
\* record under the key whatever the table holds there by then, so of two
\* calls that both missed the one inserting last leaves its record.
C5_DuplicateConstructionRace ==
    /\ [](\A t \in Threads :
            (Returned(t) /\ ~loc[t].known) =>
                /\ AttemptShape(calls[t])
                /\ loc[t].err = "nil" =>
                      (Len(loc[t].r) = 1 /\ loc[t].r[1].addr = t))
    /\ [][\A t \in Threads :
            (pc[t] = "insert" /\ pc'[t] # "insert") =>
                /\ Known(TableOfNext(call[t].path), KeyT(t))
                /\ TableOfNext(call[t].path)[KeyT(t)].addr = t
                /\ loc'[t].r = loc[t].r]_vars

C5_Witness ==
    \E t, u \in Threads :
        /\ t # u
        /\ SameKey(t, u)
        /\ Inserted(t) /\ Inserted(u)
        /\ loc[t].r[1].addr = t
        /\ loc[u].r[1].addr = u
        /\ TableOf(call[t].path)[KeyT(t)] = loc[u].r[1]

\* C6: the two tables are independent: every entry of resourceByType was
\* built by a type-path call and sits under the Go type of that call's
\* object, every entry of unstructuredResourceByGVK was built by a GVK-path
\* call and sits under the GVK its object declares; a call holds only the
\* mutex of its own path, and a record a probe finds was built on the
\* prober's own path.
C6_TableIndependence ==
    /\ \A k \in DOMAIN resourceByType :
          LET b == resourceByType[k].addr
          IN  /\ b \in Threads
              /\ call[b].path = "type"
              /\ ObjClass(call[b].obj) = "typed"
              /\ k = TypeOf(call[b].obj)
    /\ \A k \in DOMAIN unstructuredResourceByGVK :
          LET b == unstructuredResourceByGVK[k].addr
          IN  /\ b \in Threads
              /\ call[b].path = "gvk"
              /\ ObjClass(call[b].obj) # "typed"
              /\ k = DeclaredGVK(call[b].obj)
    /\ \A t \in Threads :
          /\ Holds(muByType, t) => call[t].path = "type"
          /\ Holds(muByGVK, t) => call[t].path = "gvk"
          /\ loc[t].known =>
                call[loc[t].r[1].addr].path = call[t].path

\* the type path holds the record of kind W while a GVK-path probe for the
\* same kind has missed
C6_Witness ==
    /\ "*Widget" \in DOMAIN resourceByType
    /\ resourceByType["*Widget"].gvk = GVKOf(KWidget)
    /\ \E t \in Threads :
          /\ pc[t] = "lock"
          /\ call[t].obj = "uWidget"
          /\ KeyT(t) = GVKOf(KWidget)
          /\ ~loc[t].known

\* C7: a call is between its exclusive Lock and its return (making the
\* external calls of newResource, or about to insert) only while it is the
\* writer of the mutex of its path and that mutex has no reader; so no two
\* calls of one path are in construction together, whatever their keys, and
\* no call of that path is inside its probe meanwhile.
C7_ConstructionsSerialized ==
    \A t \in Threads :
        Constructing(t) =>
            /\ IF call[t].path = "gvk"
               THEN muByGVK.writer = t /\ muByGVK.readers = {}
               ELSE muByType.writer = t /\ muByType.readers = {}
            /\ \A u \in Threads \ {t} :
                  call[u].path = call[t].path =>
                      (~Constructing(u) /\ pc[u] # "probe")

\* a miss for another key of the same table waits behind a construction
C7_Witness ==
    \E t, u \in Threads :
        /\ t # u
        /\ Constructing(t)
        /\ pc[u] = "lock"
        /\ call[u].path = call[t].path
        /\ KeyT(u) # KeyT(t)

\* C8: no call holds both mutexes, in any mode, and a call holds a mutex only
\* inside its probe (shared) or its construction (exclusive): it holds none
\* while it waits for RLock or Lock, nor once getResource has returned.
C8_OneLockAtATime ==
    \A t \in Threads :
        /\ ~(Holds(muByType, t) /\ Holds(muByGVK, t))
        /\ pc[t] \in {"idle", "rlock", "lock", "returned", "done"} =>
              (~Holds(muByType, t) /\ ~Holds(muByGVK, t))

\* both mutexes are held at once, by two calls
C8_Witness ==
    \E t, u \in Threads :
        /\ muByType.writer = t
        /\ muByGVK.writer = u
        /\ pc[t] = "mapping"
        /\ pc[u] = "mapping"

\* C9: a call takes the GVK path (the mutex and table of
\* getUnstructuredResourceByGVK, the unstructured client constructor) if and
\* only if its object is an *Unstructured or an *UnstructuredList, and the
\* type path (getResourceByType, the typed client constructor) otherwise.
C9_Dispatch ==
    \A t \in Threads :
        pc[t] # "idle" =>
            LET schemaLess ==
                    ObjClass(call[t].obj) \in {"Unstructured", "UnstructuredList"}
            IN  /\ call[t].path \in {"gvk", "type"}
                /\ call[t].path = "gvk" <=> schemaLess
                /\ Holds(muByGVK, t) => schemaLess
                /\ Holds(muByType, t) => ~schemaLess
                /\ \A i \in 1..Len(calls[t]) :
                      /\ calls[t][i].fn = "RESTUnstructuredClientForGVK"
                            => schemaLess
                      /\ calls[t][i].fn = "RESTClientForGVK" => ~schemaLess
                /\ Inserted(t) =>
                      /\ loc[t].r[1].Interface[1].mode =
                            (IF schemaLess THEN "unstructured" ELSE "typed")
                      /\ IF schemaLess
                         THEN Known(unstructuredResourceByGVK,
                                    DeclaredGVK(call[t].obj))
                         ELSE Known(resourceByType, TypeOf(call[t].obj))

C9_Witness ==
    \E t, u \in Threads :
        /\ call[t].obj = "uWidgetList" /\ Inserted(t)
        /\ loc[t].r[1].Interface[1].mode = "unstructured"
        /\ call[u].obj = "widgetList" /\ Inserted(u)
        /\ loc[u].r[1].Interface[1].mode = "typed"

\* the kind ends in "List": it is some prefix followed by the suffix
EndsInList(k) ==
    \E n \in 0..Len(k) : k = SubSeq(k, 1, n) \o <<"L", "i", "s", "t">>

\* C10: the record a call builds has the group and version GVKForObject
\* derives; its kind is the derived kind without its "List" suffix when the
\* derived kind ends in "List" and meta.IsListType holds of the object, and
\* the derived kind unchanged in every other case; the client and the REST
\* mapping of the record are those of the record's GVK.
C10_ListStripping ==
    \A t \in Threads :
        (Len(loc[t].r) = 1 /\ loc[t].r[1].addr = t) =>
            LET o == call[t].obj
                rec == loc[t].r[1]
                derived == GVKOf(KindOfObject(o))
            IN  /\ rec.gvk.Group = derived.Group
                /\ rec.gvk.Version = derived.Version
                /\ IF EndsInList(derived.Kind) /\ IsListType(o)
                   THEN rec.gvk.Kind \o <<"L", "i", "s", "t">> = derived.Kind
                   ELSE rec.gvk.Kind = derived.Kind
                /\ rec.Interface[1].gvk = rec.gvk
                /\ rec.mapping[1].GroupVersionKind = rec.gvk

\* a typed list resolves to its item kind while an object that is no list
\* keeps its kind though it ends in "List"
C10_Witness ==
    \E t, u \in Threads :
        /\ call[t].obj = "widgetList" /\ Inserted(t)
        /\ loc[t].r[1].gvk.Kind = KWidget
        /\ loc[t].r[1].mapping[1].Resource = <<"W", "s">>
        /\ call[u].obj = "uBare" /\ Inserted(u)
        /\ loc[u].r[1].gvk.Kind = KWidgetList

\* C11: any two calls for the same key (the same Go type, or the same
\* declared GVK) to which getResource has returned without error hold records
\* with the same resource name, the same isNamespaced() and the same GVK.
\* The external results are functions of their arguments throughout, so the
\* resolver, the transport factory and the config are unchanged.
C11_Idempotence ==
    \A t, u \in Threads :
        ( /\ SameKey(t, u)
          /\ Returned(t) /\ loc[t].err = "nil"
          /\ Returned(u) /\ loc[u].err = "nil" ) =>
            /\ loc[t].r[1].gvk = loc[u].r[1].gvk
            /\ ResourceName(loc[t].r[1]) = ResourceName(loc[u].r[1])
            /\ IsNamespaced(loc[t].r[1]) = IsNamespaced(loc[u].r[1])

\* C12: getObjMeta returns getResource's error as it is when getResource
\* fails; else AccessorError when meta.Accessor fails on the object; else an
\* objMeta holding the very record getResource returned (same allocation) and
\* the object's accessor.  The step that builds the objMeta changes no table.
C12_ObjMeta ==
    /\ [](\A t \in Threads :
            pc[t] = "done" =>
                IF loc[t].err # "nil"
                THEN ret[t] = [val |-> <<>>, err |-> loc[t].err]
                ELSE IF ~HasAccessor(call[t].obj)
                     THEN ret[t] = [val |-> <<>>, err |-> "AccessorError"]
                     ELSE /\ ret[t].err = "nil"
                          /\ Len(ret[t].val) = 1
                          /\ ret[t].val[1].resourceMeta = loc[t].r[1]
                          /\ ret[t].val[1].Object = call[t].obj)
    /\ [][\A t \in Threads :
            (pc[t] = "returned" /\ pc'[t] = "done") =>
                UNCHANGED <<resourceByType, unstructuredResourceByGVK>>]_vars

\* one call ends in AccessorError after a successful getResource, another
\* gets an objMeta that holds the record the table holds
C12_Witness ==
    \E t, u \in Threads :
        /\ pc[t] = "done" /\ pc[u] = "done"
        /\ loc[t].err = "nil" /\ ret[t].err = "AccessorError"
        /\ ret[u].err = "nil"
        /\ ret[u].val[1].resourceMeta = TableOf(call[u].path)[KeyT(u)]

\* C13: no step removes a key from either table, and a step that changes the
\* record under a key puts there a record with all three components set that
\* was built by a call for that very key.
C13_NoEviction ==
    [][\A p \in {"type", "gvk"} :
          /\ DOMAIN TableOf(p) \subseteq DOMAIN TableOfNext(p)
          /\ \A k \in DOMAIN TableOf(p) :
                TableOfNext(p)[k] # TableOf(p)[k] =>
                    /\ Full(TableOfNext(p)[k])
                    /\ TableOfNext(p)[k].addr \in Threads
                    /\ call[TableOfNext(p)[k].addr].path = p
                    /\ KeyT(TableOfNext(p)[k].addr) = k]_vars

\* the record a call inserted under its key has been replaced by the record
\* of a later insert
C13_Witness ==
    \E t \in Threads :
        /\ Inserted(t)
        /\ Known(TableOf(call[t].path), KeyT(t))
        /\ TableOf(call[t].path)[KeyT(t)].addr # t
        /\ loc[t].r[1].addr = t

\* the records that have left newResource: stored in a table, held by a
\* caller of getResource, or inside a returned objMeta
Published ==
    AllRecords
        \cup {loc[t].r[1] : t \in {x \in Threads : Len(loc[x].r) = 1}}
        \cup {ret[t].val[1].resourceMeta :
                  t \in {x \in Threads : Len(ret[x].val) = 1}}

\* C14: a record is never changed after it was built: wherever one allocation
\* is seen (in a table, in the hands of a caller, inside an objMeta), in one
\* state or in two successive states, its client, GVK and mapping are the same.
C14_RecordsImmutable ==
    /\ [](\A r1, r2 \in Published : r1.addr = r2.addr => r1 = r2)
    /\ [][\A r1 \in Published :
            \A r2 \in Published' : r1.addr = r2.addr => r1 = r2]_vars

\* one allocation is shared by the table, the call that built it and a later
\* call that found it
C14_Witness ==
    \E t, u \in Threads :
        /\ t # u
        /\ pc[t] = "done" /\ Inserted(t)
        /\ pc[u] = "done" /\ loc[u].known
        /\ ret[u].err = "nil"
        /\ ret[u].val[1].resourceMeta = loc[t].r[1]
        /\ TableOf(call[t].path)[KeyT(t)] = loc[t].r[1]

\* C15: for every record that has left newResource, isNamespaced() is false
\* if the scope of its REST mapping is the root (cluster) scope and true for
\* any other scope.
C15_ScopeCorrectness ==
    \A rec \in Published :
        /\ rec.mapping[1].Scope = "root" => IsNamespaced(rec) = FALSE
        /\ rec.mapping[1].Scope # "root" => IsNamespaced(rec) = TRUE

\* a cluster-scoped kind and a namespaced kind are both cached
C15_Witness ==
    \E r1, r2 \in AllRecords :
        /\ r1.gvk.Kind = KWidgets
        /\ r1.mapping[1].Scope = "root"
        /\ ~IsNamespaced(r1)
        /\ r2.mapping[1].Scope = "namespace"
        /\ IsNamespaced(r2)

\* the error each external call of newResource fails with
ErrorOf(fn) ==
    CASE fn = "GVKForObject" -> "TypeResolutionError"
      [] fn \in ClientFns -> "TransportError"
      [] fn = "RESTMapping" -> "MappingError"

\* C16: the external calls of a construction are made in the order
\* GVKForObject, client constructor, RESTMapping, each only after the one
\* before it has succeeded; a failed call is the last one and its error is
\* what getResource returns; the client constructor and RESTMapping get the
\* derived GVK with its kind stripped of "List" when the object is a list.
C16_ConstructionOrder ==
    \A t \in Threads :
        calls[t] # <<>> =>
            LET cs == calls[t]
                n == Len(cs)
                o == call[t].obj
                derived == GVKOf(KindOfObject(o))
            IN  /\ AttemptShape(cs)
                /\ IF cs[n].ok
                   THEN /\ loc[t].err = "nil"
                        /\ n = 1 => pc[t] = "client"
                        /\ n = 2 => pc[t] = "mapping"
                        /\ n = 3 => pc[t] \in {"insert", "returned", "done"}
                   ELSE /\ Returned(t)
                        /\ loc[t].err = ErrorOf(cs[n].fn)
                /\ \A i \in 2..n :
                      /\ cs[i].gvk.Group = derived.Group
                      /\ cs[i].gvk.Version = derived.Version
                      /\ IF EndsInList(derived.Kind) /\ IsListType(o)
                         THEN cs[i].gvk.Kind \o <<"L", "i", "s", "t">>
                                  = derived.Kind
                         ELSE cs[i].gvk.Kind = derived.Kind

\* a list went through all three steps with its item kind, while another
\* call stopped at a failed GVK derivation
C16_Witness ==
    \E t, u \in Threads :
        /\ call[t].obj = "uWidgetList"
        /\ Len(calls[t]) = 3
        /\ calls[t][2].gvk.Kind = KWidget
        /\ calls[t][3].gvk.Kind = KWidget
        /\ Returned(u)
        /\ Len(calls[u]) = 1
        /\ ~calls[u][1].ok

\* C17: a call that has returned from getResource holds no lock, whether it
\* succeeded or failed; every call that started eventually returns; a caller
\* waiting for the exclusive lock while a caller of the same key has failed
\* its construction goes on to run a construction of its own; and what a
\* construction returns is decided by its own external calls alone: no error
\* and its own record exactly when its three calls succeeded.
C17_IndependentRetry ==
    /\ [](\A t \in Threads :
             Returned(t) => ~Holds(muByType, t) /\ ~Holds(muByGVK, t))
    /\ \A t \in Threads : (pc[t] # "idle") ~> (pc[t] = "done")
    /\ \A t, u \in Threads :
          (/\ t # u /\ SameKey(t, u)
           /\ Returned(t) /\ loc[t].err # "nil"
           /\ pc[u] = "lock")
             ~> (Returned(u) /\ calls[u] # <<>>)
    /\ [](\A u \in Threads :
             Returned(u) /\ ~loc[u].known =>
                 /\ loc[u].err = "nil" <=>
                        Len(calls[u]) = 3 /\ calls[u][3].ok
                 /\ loc[u].err = "nil" =>
                        loc[u].r # <<>> /\ loc[u].r[1].addr = u)

\* one racer failed and released the lock, the other one, which had missed
\* before that failure, took the lock and built its record
C17_Witness ==
    \E t, u \in Threads :
        /\ t # u /\ SameKey(t, u)
        /\ Returned(t) /\ loc[t].err # "nil" /\ calls[t] # <<>>
        /\ ~call[u].afterFailure /\ ~call[u].hitAtStart
        /\ Returned(u) /\ ~loc[u].known /\ loc[u].err = "nil"
        /\ Len(calls[u]) = 3
        /\ muByType = Free /\ muByGVK = Free

\* C18: every entry of the GVK table sits under the declared GVK of the
\* object its builder was called with, unstripped, and its record's GVK is
\* that key, except that a list container of kind K+"List" has its entry
\* under K+"List" with record kind K; every entry of the type table sits
\* under the type of its builder's object; a call that has inserted finds
\* its object's declared GVK (or type) in the table; and a hit returns a
\* record built under the very key of the caller, so an item's entry never
\* serves a list.
C18_KeyVersusRecord ==
    /\ \A k \in DOMAIN unstructuredResourceByGVK :
          LET rec == unstructuredResourceByGVK[k]
              o == call[rec.addr].obj
          IN  /\ rec.addr \in Threads
              /\ call[rec.addr].path = "gvk"
              /\ k = DeclaredGVK(o)
              /\ rec.gvk.Group = k.Group /\ rec.gvk.Version = k.Version
              /\ IF IsListType(o) /\ EndsInList(k.Kind)
                 THEN /\ rec.gvk.Kind \o <<"L", "i", "s", "t">> = k.Kind
                      /\ rec.gvk # k
                 ELSE rec.gvk = k
    /\ \A k \in DOMAIN resourceByType :
          /\ resourceByType[k].addr \in Threads
          /\ call[resourceByType[k].addr].path = "type"
          /\ k = TypeOf(call[resourceByType[k].addr].obj)
    /\ \A t \in Threads :
          Inserted(t) =>
              IF IsUnstructured(call[t].obj) \/ IsUnstructuredList(call[t].obj)
              THEN Known(unstructuredResourceByGVK, DeclaredGVK(call[t].obj))
              ELSE Known(resourceByType, TypeOf(call[t].obj))
    /\ \A t \in Threads :
          Returned(t) /\ loc[t].known =>
              LET b == loc[t].r[1].addr
              IN  /\ call[b].path = call[t].path
                  /\ DeclaredGVK(call[b].obj) = DeclaredGVK(call[t].obj)
                  /\ call[t].path = "type" =>
                         TypeOf(call[b].obj) = TypeOf(call[t].obj)

\* the item kind and its list container hold two entries of the GVK table,
\* built by two constructions, both with the item's GVK in the record
C18_Witness ==
    /\ Known(unstructuredResourceByGVK, GVKOf(KWidget))
    /\ Known(unstructuredResourceByGVK, GVKOf(KWidgetList))
    /\ unstructuredResourceByGVK[GVKOf(KWidget)].gvk = GVKOf(KWidget)
    /\ unstructuredResourceByGVK[GVKOf(KWidgetList)].gvk = GVKOf(KWidget)
    /\ unstructuredResourceByGVK[GVKOf(KWidget)].addr
           # unstructuredResourceByGVK[GVKOf(KWidgetList)].addr
    /\ \E t \in Threads :
          /\ call[t].obj = "uWidgetList"
          /\ ~call[t].hitAtStart
          /\ Known(snap[t][1], GVKOf(KWidget))
          /\ ~Known(snap[t][1], GVKOf(KWidgetList))
          /\ Len(calls[t]) = 3
          /\ Inserted(t)

\* a call that built and inserted its record and then failed in meta.Accessor
AccessorFailedAfterBuild(t) ==
    /\ pc[t] = "done"
    /\ ret[t].err = "AccessorError"
    /\ ~loc[t].known

\* C19: when getObjMeta returns AccessorError for a key it did not find
\* cached, it returns no ObjectMeta but the record getResource built is in
\* the table under that key, which the table did not have when the call took
\* the lock; a call for the same key that starts after that finds the key,
\* and a call that found its key at its start makes no external call and
\* gets the cached record without error.
C19_AccessorErrorKeepsRecord ==
    /\ [](\A t \in Threads :
             AccessorFailedAfterBuild(t) =>
                 /\ ret[t].val = <<>>
                 /\ Len(calls[t]) = 3
                 /\ Known(TableOf(call[t].path), KeyT(t))
                 /\ Full(TableOf(call[t].path)[KeyT(t)])
                 /\ ~Known(snap[t][1], KeyT(t)) =>
                        TableOf(call[t].path) # snap[t][1])
    /\ [](\A u \in Threads :
             call[u].hitAtStart =>
                 /\ calls[u] = <<>>
                 /\ Returned(u) => loc[u].known /\ loc[u].err = "nil"
                                       /\ loc[u].r # <<>>)
    /\ [][\A t, u \in Threads :
             (/\ AccessorFailedAfterBuild(t)
              /\ pc[u] = "idle" /\ pc'[u] # "idle"
              /\ call'[u].path = call[t].path
              /\ KeyOf(call'[u].path, call'[u].obj) = KeyT(t))
                 => call'[u].hitAtStart]_vars

\* a list object's call built the record and failed in meta.Accessor; a later
\* call for the same key got that very record from the cache
C19_Witness ==
    \E t, u \in Threads :
        /\ t # u /\ SameKey(t, u)
        /\ AccessorFailedAfterBuild(t)
        /\ ~Known(snap[t][1], KeyT(t))
        /\ call[u].hitAtStart
        /\ Returned(u)
        /\ calls[u] = <<>>
        /\ loc[u].r # <<>> /\ loc[u].r[1].addr = t

====
